---- MODULE Spec2Model ----
(***************************************************************************)
(* The HTTP request pipeline of backend/server.js: the ordered middleware   *)
(* stack (helmet, express-rate-limit, morgan, cors, body-parser,            *)
(* express.static), the mounted API routers, the page routes, the health    *)
(* check, the error handler and the 404 handler.                            *)
(*                                                                          *)
(* One request is in flight at a time; `layer` is its position in the       *)
(* application's layer stack.  Each middleware or handler is one action.    *)
(* A path is the sequence of its segments after the leading "/":            *)
(* "/" is <<"">>, "/admin" is <<"admin">>, "/admin/" is <<"admin", "">>.    *)
(***************************************************************************)
EXTENDS Integers, Sequences, FiniteSets, TLC

VARIABLES
    hits,       \* rate-limit store: client -> requests counted in its window
    resetTime,  \* rate-limit store: client -> end of its window (-1: no entry)
    now,        \* wall clock, milliseconds
    files,      \* the files under the static root (__dirname)
    nodeEnv,    \* process.env.NODE_ENV
    layer,      \* index in Stack of the layer handling the request; 0: idle
    req,        \* the request in flight
    res,        \* its response, as built so far
    err,        \* the error passed to next(err), NoErr when none
    lastHealth, \* history: timestamp of the latest health response that has
                \* ended (-1: none yet)
    received,   \* history: client -> requests received in its window
    passed,     \* history: client -> requests the limiter forwarded in its window
    refusedIn,  \* history: client -> start of the window in which the limiter
                \* last refused a request of the client (-1: never)
    solo        \* history: client -> the store entry the client would have if
                \* it were the only client of the server

vars == <<hits, resetTime, now, files, nodeEnv, layer, req, res, err, lastHealth,
          received, passed, refusedIn, solo>>

----------------------------------------------------------------------------
(* Program constants *)

\* rateLimit({ windowMs: 15 * 60 * 1000, max: 100 })
windowMs == 15 * 60 * 1000
max == 100

\* bodyParser.json({ limit: '10mb' }), bodyParser.urlencoded({ limit: '10mb' })
limitBytes == 10 * 1024 * 1024

\* cors({ origin: [...], credentials: true })
corsOrigins == {"http://localhost:3000", "http://127.0.0.1:3000",
                "http://localhost:8000", "http://127.0.0.1:8000"}
corsCredentials == TRUE

----------------------------------------------------------------------------
(* Bounds of the model *)

\* requests a client may send beyond the limit inside one window
MaxOver == 2
\* requests the second client sends in one window
MaxLight == 2
\* the clock is read around the window boundaries 0, windowMs, ...,
\* MaxWindows * windowMs
MaxWindows == 1

----------------------------------------------------------------------------
(* Inputs: the requests the clients send *)

Clients == {"A", "B"}
Methods == {"GET", "HEAD", "POST", "PUT", "DELETE", "PATCH", "OPTIONS"}

NoOrigin == "none"
Origins == {NoOrigin, "http://localhost:3000", "http://127.0.0.1:8000",
            "http://localhost:3000/"}

Paths == { <<"">>, <<"start">>, <<"launcher">>, <<"admin">>, <<"admin", "">>,
           <<"admin", "login.html">>, <<"admin", "dashboard">>,
           <<"order-confirmation">>, <<"api", "health">>,
           <<"api", "auth", "login">>, <<"api", "sync">>,
           <<"style.css">>, <<".env">>, <<"routes">>, <<"nope">> }

\* a request body: its Content-Type, its length in bytes, and whether its
\* text parses
NoBody == [type |-> "none", length |-> 0, ok |-> TRUE]
Bodies == { NoBody,
            [type |-> "json", length |-> 2, ok |-> TRUE],
            [type |-> "json", length |-> 2, ok |-> FALSE],
            [type |-> "json", length |-> limitBytes, ok |-> TRUE],
            [type |-> "json", length |-> limitBytes + 1, ok |-> TRUE],
            [type |-> "urlencoded", length |-> 2, ok |-> TRUE],
            [type |-> "urlencoded", length |-> limitBytes + 1, ok |-> TRUE],
            [type |-> "text", length |-> limitBytes + 1, ok |-> TRUE] }

Requests == [client : Clients, method : Methods, path : Paths,
             origin : Origins, body : Bodies]

NoReq == [client |-> "none", method |-> "none", path |-> <<>>,
          origin |-> NoOrigin, body |-> NoBody]

\* the static root: the documents the page routes send, an asset, the
\* dotenv file read at line 8, a route module required at line 11; a
\* deployment may add a file named like a route
Repo == { <<"index.html">>, <<"launcher.html">>, <<"order-confirmation.html">>,
          <<"admin", "login.html">>, <<"admin", "index.html">>,
          <<"style.css">>, <<".env">>, <<"routes", "auth.js">> }
FsConfigs == { Repo, Repo \cup { <<"start">> }, { <<"style.css">> } }

NodeEnvs == {"development", "production", "test", "unset"}

----------------------------------------------------------------------------
(* Responses *)

NoText == ""
NoPath == <<"?">>
EmptyBody == [kind |-> "none"]
NoRes == [status |-> 0, by |-> "none", body |-> EmptyBody,
          helmet |-> FALSE, csp |-> FALSE, acao |-> NoOrigin, acac |-> FALSE,
          location |-> NoPath, logged |-> FALSE, errLogged |-> FALSE]

NoErr == [status |-> 0, message |-> NoText]

\* res.send / res.json / send's stream: a HEAD request gets the status and
\* the headers of the response and no body
Sent(r, body) == IF r.method = "HEAD" THEN EmptyBody ELSE body

RECURSIVE PathStr(_)
PathStr(p) == IF p = <<>> THEN "" ELSE "/" \o Head(p) \o PathStr(Tail(p))

----------------------------------------------------------------------------
(* The layer stack, in mount order (app.use / app.get calls, top to bottom) *)

Stack == <<
    [kind |-> "use",   path |-> <<>>,                       name |-> "helmet"],
    [kind |-> "use",   path |-> <<>>,                       name |-> "limiter"],
    [kind |-> "use",   path |-> <<>>,                       name |-> "morgan"],
    [kind |-> "use",   path |-> <<>>,                       name |-> "cors"],
    [kind |-> "use",   path |-> <<>>,                       name |-> "json"],
    [kind |-> "use",   path |-> <<>>,                       name |-> "urlencoded"],
    [kind |-> "use",   path |-> <<>>,                       name |-> "static"],
    [kind |-> "use",   path |-> <<"api", "auth">>,          name |-> "api"],
    [kind |-> "use",   path |-> <<"api", "orders">>,        name |-> "api"],
    [kind |-> "use",   path |-> <<"api", "products">>,      name |-> "api"],
    [kind |-> "use",   path |-> <<"api", "users">>,         name |-> "api"],
    [kind |-> "use",   path |-> <<"api", "admin">>,         name |-> "api"],
    [kind |-> "use",   path |-> <<"api", "apk">>,           name |-> "api"],
    [kind |-> "use",   path |-> <<"api", "creditcards">>,   name |-> "api"],
    [kind |-> "use",   path |-> <<"api", "sync">>,          name |-> "api"],
    [kind |-> "get",   path |-> <<>>,                       name |-> "page"],
    [kind |-> "get",   path |-> <<"start">>,                name |-> "start"],
    [kind |-> "get",   path |-> <<"launcher">>,             name |-> "page"],
    [kind |-> "get",   path |-> <<"admin">>,                name |-> "page"],
    [kind |-> "get",   path |-> <<"admin", "">>,            name |-> "page"],
    [kind |-> "get",   path |-> <<"admin", "login.html">>,  name |-> "page"],
    [kind |-> "get",   path |-> <<"admin", "dashboard">>,   name |-> "page"],
    [kind |-> "get",   path |-> <<"order-confirmation">>,   name |-> "page"],
    [kind |-> "get",   path |-> <<"api", "health">>,        name |-> "health"],
    [kind |-> "error", path |-> <<>>,                       name |-> "error"],
    [kind |-> "use",   path |-> <<>>,                       name |-> "notFound"] >>

\* the document each page route passes to res.sendFile
Document(route) ==
    CASE route = <<>>                      -> <<"index.html">>
      [] route = <<"launcher">>            -> <<"launcher.html">>
      [] route = <<"admin">>               -> <<"admin", "login.html">>
      [] route = <<"admin", "">>           -> <<"admin", "login.html">>
      [] route = <<"admin", "login.html">> -> <<"admin", "login.html">>
      [] route = <<"admin", "dashboard">>  -> <<"admin", "index.html">>
      [] route = <<"order-confirmation">>  -> <<"order-confirmation.html">>

Front(p) == SubSeq(p, 1, Len(p) - 1)
Last(p) == p[Len(p)]

\* Express matches a path without regard to one trailing "/" (strict
\* routing is off): the pattern ends in "\/?$", or in "\/?(?=\/|$)" for use
StripSlash(p) == IF p # <<>> /\ Last(p) = "" THEN Front(p) ELSE p

IsPrefix(p, q) == Len(p) <= Len(q) /\ SubSeq(q, 1, Len(p)) = p

\* Layer.match and Route._handles_method: does layer L take request r?
\* An error in flight goes to the error handlers (four parameters) only.
\* faulty variant of Matches: a middleware mounted with use also takes a
\* request whose error is in flight
MatchesAnyArity(L, r, isErr) ==
    CASE L.kind = "error" -> isErr
      [] L.kind = "use"   -> IsPrefix(StripSlash(L.path), StripSlash(r.path))
      [] L.kind = "get"   -> /\ ~isErr
                             /\ r.method \in {"GET", "HEAD"}
                             /\ StripSlash(r.path) = StripSlash(L.path)
Matches(L, r, isErr) ==
    CASE L.kind = "error" -> isErr
      [] L.kind = "use"   -> ~isErr /\ IsPrefix(StripSlash(L.path), StripSlash(r.path))
      [] L.kind = "get"   -> /\ ~isErr
                             /\ r.method \in {"GET", "HEAD"}
                             /\ StripSlash(r.path) = StripSlash(L.path)

\* faulty variant of NextLayer: the layer right after the current one is
\* passed over
NextLayerSkipping(i, r, isErr) ==
    LET later == { j \in (i + 2)..Len(Stack) : Matches(Stack[j], r, isErr) }
    IN  IF later = {} THEN Len(Stack) + 1
        ELSE CHOOSE j \in later : \A k \in later : j <= k

\* next() and next(err): the first later layer of the stack that matches;
\* past the end of the stack Express's final handler would answer
NextLayer(i, r, isErr) ==
    LET later == { j \in (i + 1)..Len(Stack) : Matches(Stack[j], r, isErr) }
    IN  IF later = {} THEN Len(Stack) + 1
        ELSE CHOOSE j \in later : \A k \in later : j <= k

InFlight == layer # 0 /\ res.status = 0
At(name) == InFlight /\ layer <= Len(Stack) /\ Stack[layer].name = name

\* what every middleware does to pass control on
Pass == /\ layer' = NextLayer(layer, req, FALSE)
        /\ err' = NoErr
Throw(e) == /\ layer' = NextLayer(layer, req, TRUE)
            /\ err' = e

----------------------------------------------------------------------------
(* The static root *)

IsFile(p) == p \in files
IsDir(p) == \E f \in files : Len(f) > Len(p) /\ SubSeq(f, 1, Len(p)) = p

\* send's containsDotFile: a segment that begins with "."
DotSegments == {".env"}
HasDotfile(p) == \E i \in 1..Len(p) : p[i] \in DotSegments

\* faulty variant of StaticLookup: dotfiles "allow"
StaticLookupAllowingDotfiles(p) ==
    CASE Last(p) = "" ->
            IF (Front(p) = <<>> \/ IsDir(Front(p))) /\ IsFile(Front(p) \o <<"index.html">>)
            THEN [found |-> "file", file |-> Front(p) \o <<"index.html">>]
            ELSE [found |-> "nothing", file |-> NoPath]
      [] Last(p) # "" /\ IsFile(p) -> [found |-> "file", file |-> p]
      [] Last(p) # "" /\ ~IsFile(p) /\ IsDir(p) -> [found |-> "directory", file |-> NoPath]
      [] OTHER -> [found |-> "nothing", file |-> NoPath]

\* What express.static (serve-static over send, default options: dotfiles
\* "ignore", index "index.html", redirect true, fallthrough true) finds for
\* a GET or HEAD of path p
StaticLookup(p) ==
    CASE HasDotfile(p) -> [found |-> "nothing", file |-> NoPath]
      [] ~HasDotfile(p) /\ Last(p) = "" ->
            IF (Front(p) = <<>> \/ IsDir(Front(p))) /\ IsFile(Front(p) \o <<"index.html">>)
            THEN [found |-> "file", file |-> Front(p) \o <<"index.html">>]
            ELSE [found |-> "nothing", file |-> NoPath]
      [] ~HasDotfile(p) /\ Last(p) # "" /\ IsFile(p) -> [found |-> "file", file |-> p]
      [] ~HasDotfile(p) /\ Last(p) # "" /\ ~IsFile(p) /\ IsDir(p) ->
            [found |-> "directory", file |-> NoPath]
      [] OTHER -> [found |-> "nothing", file |-> NoPath]

----------------------------------------------------------------------------
(* Arrival of a request, the clock, the end of a response *)

Init ==
    /\ hits = [c \in Clients |-> 0]
    /\ resetTime = [c \in Clients |-> -1]
    /\ now = 0
    /\ files \in FsConfigs
    /\ nodeEnv \in NodeEnvs
    /\ layer = 0
    /\ req = NoReq
    /\ res = NoRes
    /\ err = NoErr
    /\ lastHealth = -1
    /\ received = [c \in Clients |-> 0]
    /\ passed = [c \in Clients |-> 0]
    /\ refusedIn = [c \in Clients |-> -1]
    /\ solo = [c \in Clients |-> [count |-> 0, until |-> -1]]

\* app.handle: the request enters the stack at its first layer
Receive(r) ==
    /\ layer = 0
    /\ layer' = NextLayer(0, r, FALSE)
    /\ req' = r
    /\ res' = NoRes
    /\ err' = NoErr
    /\ received' = [received EXCEPT ![r.client] = @ + 1]
    /\ UNCHANGED <<hits, resetTime, now, files, nodeEnv, lastHealth, passed,
                   refusedIn, solo>>

\* the wall clock advances
Tick(d) ==
    /\ now' = now + d
    /\ UNCHANGED <<hits, resetTime, files, nodeEnv, layer, req, res, err, lastHealth,
                   received, passed, refusedIn, solo>>

\* the response has been written; the server takes the next request
Finish ==
    /\ res.status # 0
    /\ layer' = 0
    /\ req' = NoReq
    /\ res' = NoRes
    /\ err' = NoErr
    /\ lastHealth' = IF res.body.kind = "health" THEN res.body.timestamp ELSE lastHealth
    /\ UNCHANGED <<hits, resetTime, now, files, nodeEnv, received, passed,
                   refusedIn, solo>>

\* res.status(s) and the end of the response, by the layer in charge
Redirect(s, body, target) ==
    /\ res' = [res EXCEPT !.status = s, !.by = Stack[layer].name,
                          !.body = Sent(req, body), !.location = target]
    /\ UNCHANGED <<layer, err>>
Respond(s, body) == Redirect(s, body, NoPath)

----------------------------------------------------------------------------
(* The middleware, in stack order *)

\* faulty variant of Helmet: helmet() with its defaults, the
\* Content-Security-Policy header included
HelmetWithDefaults ==
    /\ At("helmet")
    /\ res' = [res EXCEPT !.helmet = TRUE, !.csp = TRUE]
    /\ Pass
    /\ UNCHANGED <<hits, resetTime, now, files, nodeEnv, req, lastHealth, received, passed,
                   refusedIn, solo>>

\* helmet({ contentSecurityPolicy: false })
Helmet ==
    /\ At("helmet")
    /\ res' = [res EXCEPT !.helmet = TRUE, !.csp = FALSE]
    /\ Pass
    /\ UNCHANGED <<hits, resetTime, now, files, nodeEnv, req, lastHealth, received, passed,
                   refusedIn, solo>>

\* the memory store of express-rate-limit: a client's window has run out
\* when its reset time has come (or it has no entry yet)
Expired(c) == resetTime[c] = -1 \/ resetTime[c] <= now
\* faulty variant of Counted: the health check is exempt from the count
CountedSkippingHealth(c) ==
    IF req.path = <<"api", "health">> THEN hits[c]
    ELSE IF Expired(c) THEN 1 ELSE hits[c] + 1
\* faulty variant of Counted: one counter for all the clients
CountedAcrossClients(c) == IF Expired(c) THEN 1 ELSE hits["A"] + hits["B"] + 1
\* faulty variant of Counted: a new window does not reset the counter
CountedWithoutReset(c) == hits[c] + 1
Counted(c) == IF Expired(c) THEN 1 ELSE hits[c] + 1
\* faulty variant of OverLimit: the max-th request is refused already
OverLimitInclusive(count) == count >= max
OverLimit(count) == count > max

TooMany == [kind |-> "text", text |-> "Too many requests, please try again later."]

Limiter ==
    /\ At("limiter")
    /\ hits' = [hits EXCEPT ![req.client] = Counted(req.client)]
    /\ resetTime' = [resetTime EXCEPT ![req.client] =
                        IF Expired(req.client) THEN now + windowMs ELSE @]
    /\ IF OverLimit(Counted(req.client))
       THEN Respond(429, TooMany)
       ELSE Pass /\ res' = res
    /\ received' = [received EXCEPT ![req.client] = IF Expired(req.client) THEN 1 ELSE @]
    /\ passed' = [passed EXCEPT ![req.client] =
                     (IF Expired(req.client) THEN 0 ELSE @)
                     + (IF res'.status = 0 THEN 1 ELSE 0)]
    /\ refusedIn' = [refusedIn EXCEPT ![req.client] =
                        IF res'.status = 429 THEN resetTime'[req.client] - windowMs
                        ELSE @]
    /\ solo' = [solo EXCEPT ![req.client] =
                   IF @.until = -1 \/ @.until <= now
                   THEN [count |-> 1, until |-> now + 15 * 60 * 1000]
                   ELSE [@ EXCEPT !.count = @ + 1]]
    /\ UNCHANGED <<now, files, nodeEnv, req, lastHealth>>

\* morgan('combined'): writes the access-log line when the response ends
Morgan ==
    /\ At("morgan")
    /\ res' = [res EXCEPT !.logged = TRUE]
    /\ Pass
    /\ UNCHANGED <<hits, resetTime, now, files, nodeEnv, req, lastHealth, received, passed,
                   refusedIn, solo>>

\* faulty variant of OriginAllowed: any origin is reflected
OriginAllowedAny(o) == o # NoOrigin

\* cors: isOriginAllowed over the array is string equality with an entry
OriginAllowed(o) == o \in corsOrigins

\* cors: configureOrigin reflects an allowed origin and sets nothing for
\* another; configureCredentials does not look at the origin.  A preflight
\* (OPTIONS) is answered here with optionsSuccessStatus 204.
Cors ==
    /\ At("cors")
    /\ LET h == [res EXCEPT !.acao = IF OriginAllowed(req.origin) THEN req.origin
                                     ELSE NoOrigin,
                            !.acac = corsCredentials]
       IN  IF req.method = "OPTIONS"
           THEN /\ res' = [h EXCEPT !.status = 204, !.by = "cors"]
                /\ UNCHANGED <<layer, err>>
           ELSE /\ res' = h
                /\ Pass
    /\ UNCHANGED <<hits, resetTime, now, files, nodeEnv, req, lastHealth, received, passed,
                   refusedIn, solo>>

\* body-parser: the decoder of Content-Type `type` reads the body if there
\* is one of its type; raw-body refuses a length over the limit with 413
\* before any byte is parsed
\* faulty variant of TooLarge: the comparison is off by one byte
TooLargeOffByOne(b) == b.length > limitBytes + 1
TooLarge(b) == b.length > limitBytes
Reads(type) == req.body.type = type /\ req.body.length > 0

EntityTooLarge == [status |-> 413, message |-> "request entity too large"]
ParseFailed == [status |-> 400, message |-> "Unexpected token in JSON"]

\* bodyParser.json({ limit: '10mb' })
JsonParser ==
    /\ At("json")
    /\ IF Reads("json") /\ TooLarge(req.body) THEN Throw(EntityTooLarge)
       ELSE IF Reads("json") /\ ~req.body.ok THEN Throw(ParseFailed)
       ELSE Pass
    /\ UNCHANGED <<hits, resetTime, now, files, nodeEnv, req, res, lastHealth, received, passed,
                   refusedIn, solo>>

\* bodyParser.urlencoded({ extended: true, limit: '10mb' }): qs does not
\* fail on the text of a body
UrlencodedParser ==
    /\ At("urlencoded")
    /\ IF Reads("urlencoded") /\ TooLarge(req.body) THEN Throw(EntityTooLarge)
       ELSE Pass
    /\ UNCHANGED <<hits, resetTime, now, files, nodeEnv, req, res, lastHealth, received, passed,
                   refusedIn, solo>>

ReadFault == [status |-> 500, message |-> "EIO: i/o error, read"]
NotThere == [status |-> 404, message |-> "ENOENT: no such file or directory"]

FileBody(f) == [kind |-> "file", file |-> f]
RedirectBody == [kind |-> "redirect"]

\* serve-static's redirect to a directory: 301 to the path plus "/", with
\* the headers Content-Security-Policy: default-src 'none' and
\* X-Content-Type-Options: nosniff set on the response
DirectoryRedirect ==
    /\ res' = [res EXCEPT !.status = 301, !.by = "static",
                          !.body = Sent(req, RedirectBody),
                          !.location = req.path \o <<"">>, !.csp = TRUE]
    /\ UNCHANGED <<layer, err>>

\* express.static(path.join(__dirname)): GET and HEAD only; a file is
\* streamed, a directory named without its "/" is redirected to, anything
\* else falls through; an error once the file is open goes to next(err)
Static ==
    /\ At("static")
    /\ LET look == StaticLookup(req.path)
       IN  IF req.method \notin {"GET", "HEAD"} \/ look.found = "nothing"
           THEN Pass /\ res' = res
           ELSE IF look.found = "directory"
           THEN DirectoryRedirect
           ELSE \/ Respond(200, FileBody(look.file))
                \/ Throw(ReadFault) /\ res' = res
    /\ UNCHANGED <<hits, resetTime, now, files, nodeEnv, req, lastHealth, received, passed,
                   refusedIn, solo>>

\* The routers of ./routes/*, mounted under the API prefixes: each answers
\* the request itself, passes it on (no route of the router matches), or
\* fails
ApiStatuses == {200, 401}
RouteFailure == [status |-> 500, message |-> "route failure"]

ApiGroup ==
    /\ At("api")
    /\ \/ \E s \in ApiStatuses :
            Respond(s, [kind |-> "api", group |-> Stack[layer].path])
       \/ Pass /\ res' = res
       \/ Throw(RouteFailure) /\ res' = res
    /\ UNCHANGED <<hits, resetTime, now, files, nodeEnv, req, lastHealth, received, passed,
                   refusedIn, solo>>

\* res.sendFile(path.join(__dirname, ...)) without a callback: the document
\* is streamed; a missing document or a failed read goes to next(err)
SendFile(f) ==
    IF IsFile(f)
    THEN \/ Respond(200, FileBody(f))
         \/ Throw(ReadFault) /\ res' = res
    ELSE Throw(NotThere) /\ res' = res

\* faulty variant of Page: the dashboard route asks for a credential
PageBehindLogin ==
    /\ At("page")
    /\ IF Stack[layer].path = <<"admin", "dashboard">> /\ req.credential = "none"
       THEN Respond(401, [kind |-> "json", error |-> "Unauthorized"])
       ELSE SendFile(Document(Stack[layer].path))
    /\ UNCHANGED <<hits, resetTime, now, files, nodeEnv, req, lastHealth, received, passed,
                   refusedIn, solo>>

\* app.get('/'), '/launcher', '/admin', '/admin/', '/admin/login.html',
\* '/admin/dashboard', '/order-confirmation'
Page ==
    /\ At("page")
    /\ SendFile(Document(Stack[layer].path))
    /\ UNCHANGED <<hits, resetTime, now, files, nodeEnv, req, lastHealth, received, passed,
                   refusedIn, solo>>

\* faulty variant of Start: the launcher document is sent in place of the
\* redirect
StartSendsLauncher ==
    /\ At("start")
    /\ SendFile(<<"launcher.html">>)
    /\ UNCHANGED <<hits, resetTime, now, files, nodeEnv, req, lastHealth, received, passed,
                   refusedIn, solo>>

\* app.get('/start'): res.redirect('/launcher')
Start ==
    /\ At("start")
    /\ Redirect(302, RedirectBody, <<"launcher">>)
    /\ UNCHANGED <<hits, resetTime, now, files, nodeEnv, req, lastHealth, received, passed,
                   refusedIn, solo>>

\* new Date().toISOString(): the clock, to the millisecond
\* faulty variant of Timestamp: the clock truncated to the second
TimestampInSeconds == (now \div 1000) * 1000
Timestamp == now

\* app.get('/api/health')
Health ==
    /\ At("health")
    /\ Respond(200, [kind |-> "health", status |-> "OK",
                     message |-> "ShoppingDmart Backend is running",
                     timestamp |-> Timestamp, version |-> "1.0.0"])
    /\ UNCHANGED <<hits, resetTime, now, files, nodeEnv, req, lastHealth, received, passed,
                   refusedIn, solo>>

\* the error-handling middleware
\* faulty variant of ErrorMessage: the raw message unless NODE_ENV is
\* production
ErrorMessageUnlessProduction(e) == IF nodeEnv = "production" THEN "Internal server error"
                                   ELSE e.message
ErrorMessage(e) == IF nodeEnv = "development" THEN e.message
                   ELSE "Internal server error"

ErrorHandler ==
    /\ At("error")
    /\ res' = [res EXCEPT !.status = 500, !.by = "error", !.errLogged = TRUE,
                          !.body = Sent(req, [kind |-> "json",
                                              error |-> "Something went wrong!",
                                              message |-> ErrorMessage(err)])]
    /\ UNCHANGED <<hits, resetTime, now, files, nodeEnv, layer, req, err, lastHealth,
                   received, passed, refusedIn, solo>>

\* the 404 handler
\* faulty variant of NotFoundBody: the method is not the request's
NotFoundBodyAlwaysGet(r) ==
    [kind |-> "json", error |-> "Route not found",
     message |-> "Cannot GET " \o PathStr(r.path)]
NotFoundBody(r) == [kind |-> "json", error |-> "Route not found",
                    message |-> "Cannot " \o r.method \o " " \o PathStr(r.path)]

\* faulty variant of NotFound: the handler calls next() and sends nothing
NotFoundPassesOn ==
    /\ At("notFound")
    /\ Pass /\ res' = res
    /\ UNCHANGED <<hits, resetTime, now, files, nodeEnv, req, lastHealth, received, passed,
                   refusedIn, solo>>

NotFound ==
    /\ At("notFound")
    /\ Respond(404, NotFoundBody(req))
    /\ UNCHANGED <<hits, resetTime, now, files, nodeEnv, req, lastHealth, received, passed,
                   refusedIn, solo>>

Pipeline ==
    \/ Helmet \/ Limiter \/ Morgan \/ Cors \/ JsonParser \/ UrlencodedParser
    \/ Static \/ ApiGroup \/ Page \/ Start \/ Health \/ ErrorHandler
    \/ NotFound \/ Finish

----------------------------------------------------------------------------
(* Specifications.  All start from the server as constructed and run the    *)
(* same pipeline; they differ in the requests the clients send.             *)

\* the monitoring probe: GET /api/health, no Origin, no body
IsProbe(r) == /\ r.method = "GET" /\ r.path = <<"api", "health">>
              /\ r.origin = NoOrigin /\ r.body = NoBody

\* no client sends more than MaxOver requests beyond the limit in a window
WithinBudget(r) == received[r.client] < max + MaxOver

\* Spec: one client sends any request as the first and the last admitted
\* requests of its window and beyond the limit, and the probe in between
Offered(r) ==
    /\ r.client = "A"
    /\ WithinBudget(r)
    /\ received[r.client] \in 1..(max - 2) => IsProbe(r)

Arrive == layer = 0 /\ \E r \in Requests : Offered(r) /\ Receive(r)

Next == Arrive \/ Pipeline

Spec == Init /\ [][Next]_vars

\* SpecLimiter: two clients, one of them within MaxLight requests a window,
\* send requests of a few kinds (one for each layer that can answer) while
\* whole windows pass; the deployment is the repository as it stands
Samples ==
    { [method |-> "GET", path |-> <<"api", "health">>, origin |-> NoOrigin,
       body |-> NoBody],
      [method |-> "GET", path |-> <<"start">>, origin |-> "http://localhost:3000",
       body |-> NoBody],
      [method |-> "GET", path |-> <<"style.css">>, origin |-> NoOrigin,
       body |-> NoBody],
      [method |-> "OPTIONS", path |-> <<"nope">>, origin |-> "http://localhost:3000",
       body |-> NoBody],
      [method |-> "POST", path |-> <<"api", "auth", "login">>, origin |-> NoOrigin,
       body |-> [type |-> "json", length |-> 2, ok |-> FALSE]],
      [method |-> "POST", path |-> <<"api", "auth", "login">>, origin |-> NoOrigin,
       body |-> [type |-> "json", length |-> 2, ok |-> TRUE]],
      [method |-> "GET", path |-> <<"admin", "dashboard">>, origin |-> NoOrigin,
       body |-> NoBody],
      [method |-> "DELETE", path |-> <<"nope">>, origin |-> NoOrigin,
       body |-> NoBody] }

From(c, s) == [client |-> c, method |-> s.method, path |-> s.path,
               origin |-> s.origin, body |-> s.body]

Quota(c) == IF c = "A" THEN max + MaxOver ELSE MaxLight

ArriveFrom(senders) ==
    /\ layer = 0
    /\ \E c \in senders, s \in Samples :
          /\ Expired(c) \/ received[c] < Quota(c)
          /\ Receive(From(c, s))

\* a whole window passes
NextWindow == now < MaxWindows * windowMs /\ Tick(windowMs)

InitRepo == Init /\ files = Repo /\ nodeEnv = "production"

NextLimiter == ArriveFrom(Clients) \/ NextWindow \/ Pipeline

SpecLimiter == InitRepo /\ [][NextLimiter]_vars

\* SpecClock: one client sends the same kinds of request while the clock is
\* read at instants around the window boundaries
\* the instants of a window boundary, of the millisecond before it and of
\* the millisecond after it
Instants == { t \in { k * windowMs + j : k \in 0..MaxWindows, j \in {0 - 1, 0, 1} } :
              t >= 0 }

\* The limiter and the health handler alone read the clock: an advance of
\* the clock elsewhere in the handling of a request is one before the next
\* of these reads
Advance ==
    /\ layer = 0 \/ At("health")
    /\ \E t \in Instants : t > now /\ Tick(t - now)

NextClock == ArriveFrom({"A"}) \/ Advance \/ Pipeline

SpecClock == InitRepo /\ [][NextClock]_vars

\* SpecAuth: one client sends the same kinds of request, and GET
\* /admin/dashboard with every body, each without a credential, with a
\* session cookie and with an Authorization header; no layer of server.js
\* reads either header
Credentials == {"none", "cookie", "bearer"}

WithCredential(r, a) == [client |-> r.client, method |-> r.method, path |-> r.path,
                         origin |-> r.origin, body |-> r.body, credential |-> a]

AuthSamples ==
    Samples \cup { [method |-> "GET", path |-> <<"admin", "dashboard">>,
                    origin |-> NoOrigin, body |-> b] : b \in Bodies }

ArriveWithCredential ==
    /\ layer = 0
    /\ received["A"] < max + MaxOver
    /\ \E s \in AuthSamples, a \in Credentials : Receive(WithCredential(From("A", s), a))

NextAuth == ArriveWithCredential \/ Pipeline

SpecAuth == Init /\ [][NextAuth]_vars

\* SpecCrowd: two clients, each sending up to MaxOver requests beyond the
\* limit in a window, while whole windows pass: the first sends a request
\* of any kind and then the probe; the second sends the probe, any number
\* of times, once the first is within two requests of its limit
CrowdOffered(c, s) ==
    /\ Expired(c) \/ received[c] < max + MaxOver
    /\ IF c = "A"
       THEN IsProbe(From(c, s)) \/ resetTime[c] = -1
       ELSE IsProbe(From(c, s)) /\ received["A"] >= max - 1

ArriveCrowd ==
    /\ layer = 0
    /\ \E c \in Clients, s \in Samples : CrowdOffered(c, s) /\ Receive(From(c, s))

NextCrowd == ArriveCrowd \/ NextWindow \/ Pipeline

SpecCrowd == InitRepo /\ [][NextCrowd]_vars

\* SpecLive: the requests of Spec, sent to the repository as it stands,
\* with the scheduling of Node's event loop: a middleware or handler that
\* has been handed the request runs, and a response that has been written
\* ends
SpecLive == InitRepo /\ [][Next]_vars /\ WF_vars(Pipeline)

----------------------------------------------------------------------------
(* Properties *)

LayerOf(name) == CHOOSE i \in 1..Len(Stack) : Stack[i].name = name
Responded == res.status # 0
PastLimiter == layer > LayerOf("limiter") \/ (Responded /\ res.by # "limiter")
Pending(c) == IF layer # 0 /\ layer <= LayerOf("limiter") /\ ~Responded /\ req.client = c
              THEN 1 ELSE 0
Min(a, b) == IF a <= b THEN a ELSE b

\* C1: in each window of each client the limiter forwards the first max
\* requests and no more, whatever the other clients send; a request beyond
\* them is answered 429 by the limiter and reaches no later layer (no access
\* log entry is registered, no CORS header is set, no handler has run).
C1_FirstNForwarded ==
    /\ \A c \in Clients : passed[c] <= max
    /\ \A c \in Clients : passed[c] = Min(received[c] - Pending(c), max)
    /\ PastLimiter => received[req.client] <= max
    /\ (Responded /\ res.by = "limiter") =>
          /\ res.status = 429
          /\ received[req.client] > max
          /\ layer = LayerOf("limiter")
          /\ ~res.logged /\ res.acao = NoOrigin /\ ~res.acac
          /\ err = NoErr

\* a client is refused its 101st request of a window after the other client
\* has sent requests in between
C1_Witness ==
    /\ Responded /\ res.by = "limiter" /\ res.status = 429
    /\ req.client = "A" /\ received["A"] = max + 1 /\ passed["A"] = max
    /\ received["B"] > 0 /\ passed["B"] = received["B"]
    /\ now > 0

\* C2: every request, whatever its method and path, is counted by the
\* limiter against the counter of its client; the probe GET /api/health is
\* answered 200 by the health handler as one of the first max requests of
\* the window and 429 after them.
C2_CountedUniformly ==
    /\ PastLimiter \/ Responded => hits[req.client] = received[req.client]
    /\ (Responded /\ IsProbe(req)) =>
          IF received[req.client] <= max
          THEN res.status = 200 /\ res.by = "health"
          ELSE res.status = 429 /\ res.by = "limiter"

\* the 101st request of the window is the probe, and it is refused
C2_Witness ==
    /\ Responded /\ IsProbe(req) /\ received[req.client] = max + 1
    /\ res.status = 429

\* the body decoders refuse the body of request r
BodyRefused(r) ==
    /\ r.body.type \in {"json", "urlencoded"}
    /\ r.body.length > 0
    /\ \/ r.body.length > 10 * 1024 * 1024
       \/ r.body.type = "json" /\ ~r.body.ok

\* a path that is no file of the static root, no page route, not the health
\* check and not under an API prefix
Unmatched(r) == r.path = <<"nope">> \/ (r.path = <<".env">> /\ <<".env">> \notin files)
Shown(p) == IF p = <<"nope">> THEN "/nope" ELSE "/.env"
RouteNotFound(r) == [kind |-> "json", error |-> "Route not found",
                     message |-> "Cannot " \o r.method \o " " \o Shown(r.path)]

C4_Original ==
    (Responded /\ res.by \notin {"limiter", "cors"} /\ BodyRefused(req)) =>
        IF req.body.length > 10 * 1024 * 1024 THEN res.status = 413
        ELSE res.status = 400

\* C5: an error raised by a body decoder, the static server, sendFile of a
\* page route or an API router goes to the error handler and to no other
\* layer; the error handler logs it and answers 500 with a JSON body
\* {error, message}; that is the only response of the request, and when it
\* has ended the server is idle again, its rate-limit store as it was.
C5_StateOK ==
    /\ (layer # 0 /\ err # NoErr) => Stack[layer].name = "error"
    /\ (layer # 0 /\ Stack[layer].name = "error") => err # NoErr
    /\ (Responded /\ err # NoErr) =>
          /\ res.status = 500 /\ res.by = "error" /\ res.errLogged
          /\ res.body = IF req.method = "HEAD" THEN EmptyBody
                        ELSE [kind |-> "json", error |-> "Something went wrong!",
                              message |-> IF nodeEnv = "development" THEN err.message
                                          ELSE "Internal server error"]
    /\ (Responded /\ res.by = "error") => err # NoErr
    /\ (Responded /\ res.by # "error") => ~res.errLogged

\* C5, in full: the state invariant above, and the steps that raise an
\* error and that end its response: an error is raised by a decoder, the
\* static server, a page route or an API router only and is handed to the
\* error handler; after the 500 the server is idle, the store unchanged.
C5_CaughtAs500 ==
    /\ [](C5_StateOK)
    /\ [][ /\ (err = NoErr /\ err' # NoErr) =>
                /\ Stack[layer].name \in {"json", "urlencoded", "static", "page", "api"}
                /\ ~Responded' /\ Stack[layer'].name = "error"
           /\ (Responded /\ res.by = "error" /\ now' = now) =>
                /\ layer' = 0 /\ res' = NoRes /\ err' = NoErr
                /\ hits' = hits /\ resetTime' = resetTime ]_vars

\* a page route whose document is missing has been answered 500
C5_Witness ==
    /\ Responded /\ res.status = 500 /\ res.by = "error" /\ res.errLogged
    /\ err.message = "ENOENT: no such file or directory"
    /\ req.path = <<"admin", "dashboard">>
    /\ nodeEnv = "development"
    /\ res.body.message = "ENOENT: no such file or directory"

\* C6 as claimed: GET /admin, /admin/ and /admin/login.html, forwarded by the
\* limiter, are answered with the document admin/login.html when the static
\* root holds admin/index.html and admin/login.html, never with
\* admin/index.html and never with a redirect of the static server.
C6_Original ==
    (/\ Responded /\ req.method = "GET"
     /\ req.path \in { <<"admin">>, <<"admin", "">>, <<"admin", "login.html">> }
     /\ res.by \notin {"limiter", "error"}
     /\ { <<"admin", "index.html">>, <<"admin", "login.html">> } \subseteq files) =>
        /\ res.status = 200
        /\ res.body = [kind |-> "file", file |-> <<"admin", "login.html">>]

\* what the static root holds for a path: the file itself, or index.html of
\* the directory for a path that ends in "/"
Dotted(p) == \E i \in 1..Len(p) : p[i] = ".env"
FileFor(p) == IF p[Len(p)] = "" THEN SubSeq(p, 1, Len(p) - 1) \o <<"index.html">> ELSE p
DirectoryAt(p) == p[Len(p)] # "" /\ p \notin files
                  /\ \E f \in files : Len(f) > Len(p) /\ SubSeq(f, 1, Len(p)) = p
UnderApiMount(p) == Len(p) >= 2 /\ p[1] = "api" /\ p[2] \in {"auth", "sync"}
DocumentOf(p) ==
    CASE p \in { <<"">> } -> <<"index.html">>
      [] p = <<"launcher">> -> <<"launcher.html">>
      [] p \in { <<"admin">>, <<"admin", "">>, <<"admin", "login.html">> } ->
            <<"admin", "login.html">>
      [] p = <<"admin", "dashboard">> -> <<"admin", "index.html">>
      [] p = <<"order-confirmation">> -> <<"order-confirmation.html">>
      [] OTHER -> <<"?">>

\* the answer of the layers after the static server, in mount order: the API
\* router of the prefix (or, when it passes the request on, the 404
\* handler), the page route, the health check, the 404 handler; a failure
\* of a router or of sendFile is answered by the error handler
AnsweredInMountOrder ==
    IF UnderApiMount(req.path)
    THEN res.by \in {"api", "error"} \/ (res.by = "notFound" /\ res.status = 404)
    ELSE IF req.path = <<"start">> THEN res.by = "start" /\ res.status = 302
    ELSE IF DocumentOf(req.path) # <<"?">>
    THEN \/ /\ res.by = "page" /\ res.status = 200
            /\ res.body = [kind |-> "file", file |-> DocumentOf(req.path)]
         \/ res.by = "error"
    ELSE IF req.path = <<"api", "health">> THEN res.by = "health" /\ res.status = 200
    ELSE res.by = "notFound" /\ res.status = 404

ForwardedGet == /\ Responded /\ req.method = "GET"
                /\ res.by # "limiter" /\ ~BodyRefused(req)

\* C7 as claimed: a GET that the earlier stages forward is answered by the
\* static server with the file whenever its path resolves to an existing
\* file of the static root, and by the later layers in mount order
\* whenever it does not.
C7_Original ==
    ForwardedGet =>
        IF FileFor(req.path) \in files
        THEN \/ /\ res.by = "static" /\ res.status = 200
                /\ res.body = [kind |-> "file", file |-> FileFor(req.path)]
             \/ res.by = "error"
        ELSE AnsweredInMountOrder

\* C7 as amended: the static server comes first and answers with the file
\* when the path names no dotfile and resolves to an existing file (the
\* file itself, or index.html for a directory named with its "/"), unless
\* the read fails (error handler, 500); it answers a directory named
\* without its "/" with a 301 redirect to the path plus "/"; only then, and
\* for every dotfile, the request falls through to the API prefixes, the
\* page routes, the health check and the 404 handler, in mount order.
C7_StaticFirst ==
    ForwardedGet =>
        IF Dotted(req.path) THEN AnsweredInMountOrder
        ELSE IF FileFor(req.path) \in files
        THEN \/ /\ res.by = "static" /\ res.status = 200
                /\ res.body = [kind |-> "file", file |-> FileFor(req.path)]
             \/ /\ res.by = "error" /\ res.status = 500
                /\ err.message = "EIO: i/o error, read"
        ELSE IF DirectoryAt(req.path)
        THEN /\ res.by = "static" /\ res.status = 301
             /\ res.location = req.path \o <<"">>
        ELSE AnsweredInMountOrder

\* GET / is answered by the static server with index.html, ahead of the
\* page route of "/"
C7_Witness ==
    /\ Responded /\ req.method = "GET" /\ req.path = <<"">>
    /\ res.by = "static" /\ res.status = 200
    /\ res.body = [kind |-> "file", file |-> <<"index.html">>]

\* C8 as claimed: every GET /start, at any count of the limiter and with
\* any content of the static root, is answered 302 with Location /launcher
\* and never with a document (stated here for the requests without a body).
C8_Original ==
    (Responded /\ req.method = "GET" /\ req.path = <<"start">> /\ req.body.length = 0) =>
        /\ res.status = 302
        /\ res.location = <<"launcher">>
        /\ res.body.kind # "file"

\* C8 as amended: a GET /start that the limiter forwards and whose body the
\* decoders accept is answered 302 with Location /launcher by its route when
\* the static root holds no entry named start; beyond the limit it is
\* answered 429, and a file named start in the static root is served by the
\* static server in its place.
C8_StartRedirects ==
    (Responded /\ req.method = "GET" /\ req.path = <<"start">>) =>
        IF received[req.client] > 100 THEN res.by = "limiter" /\ res.status = 429
        ELSE IF BodyRefused(req) THEN res.by = "error" /\ res.status = 500
        ELSE IF <<"start">> \in files
        THEN \/ /\ res.by = "static" /\ res.status = 200
                /\ res.body = [kind |-> "file", file |-> <<"start">>]
             \/ res.by = "error" /\ res.status = 500
        ELSE /\ res.by = "start" /\ res.status = 302
             /\ res.location = <<"launcher">>
             /\ res.body = [kind |-> "redirect"]

\* the 100th request of the window is a GET /start and is redirected
C8_Witness ==
    /\ Responded /\ req.method = "GET" /\ req.path = <<"start">>
    /\ received[req.client] = 100
    /\ res.status = 302 /\ res.location = <<"launcher">> /\ res.by = "start"

HealthAnswered == Responded /\ req.method = "GET" /\ res.by = "health"

\* C9 as claimed: every GET /api/health is answered 200 with
\* {status: "OK", message, timestamp, version: "1.0.0"}, and the timestamp
\* of a response is strictly greater than that of the response before it.
C9_Original ==
    (Responded /\ req.method = "GET" /\ req.path = <<"api", "health">>) =>
        /\ res.status = 200
        /\ res.body.kind = "health" /\ res.body.version = "1.0.0"
        /\ lastHealth # -1 => res.body.timestamp > lastHealth

\* C9 as amended: every GET /api/health that reaches the health handler is
\* answered 200 with {status: "OK", message, timestamp, version: "1.0.0"};
\* the version is the same in every response; the timestamp is the clock
\* read to the millisecond when the handler runs, so that of a later
\* response is never less than that of an earlier one, and equal to it when
\* both handlers run in the same millisecond (the clock not being set back).
\* Beyond the limit the request is answered 429 instead.
C9_HealthState ==
    /\ (Responded /\ req.method = "GET" /\ req.path = <<"api", "health">>) =>
          IF received[req.client] > 100 THEN res.status = 429 /\ res.by = "limiter"
          ELSE IF BodyRefused(req) THEN res.status = 500 /\ res.by = "error"
          ELSE res.by = "health"
    /\ HealthAnswered =>
          /\ res.status = 200
          /\ res.body.kind = "health"
          /\ res.body.status = "OK"
          /\ res.body.message = "ShoppingDmart Backend is running"
          /\ res.body.version = "1.0.0"
          /\ res.body.timestamp <= now
          /\ res.body.timestamp >= lastHealth

\* C9 as amended, in full: the state invariant above, and the timestamp of
\* a health response is the clock at the step of the health handler.
C9_HealthTimestamps ==
    /\ [](C9_HealthState)
    /\ [][(~Responded /\ HealthAnswered') => res'.body.timestamp = now]_vars

\* two health checks answered within the same millisecond carry the same
\* timestamp
C9_Witness ==
    /\ HealthAnswered /\ res.status = 200
    /\ lastHealth = 15 * 60 * 1000 - 1
    /\ res.body.timestamp = lastHealth

\* C10 as claimed: a response to a request with an Origin that is not one
\* of the four allowed carries neither Access-Control-Allow-Origin nor
\* Access-Control-Allow-Credentials; every response to an allowed Origin,
\* a rate-limit rejection included, carries both, the first equal to the
\* Origin.
AllowList == {"http://localhost:3000", "http://127.0.0.1:3000",
              "http://localhost:8000", "http://127.0.0.1:8000"}

C10_Original ==
    (Responded /\ req.origin # "none") =>
        IF req.origin \in AllowList
        THEN res.acao = req.origin /\ res.acac
        ELSE res.acao = "none" /\ ~res.acac

\* C10 as amended: a response produced at or after the CORS stage carries
\* Access-Control-Allow-Origin, equal to the request's Origin, exactly when
\* that Origin is one of the four allowed (string equality), and carries
\* Access-Control-Allow-Credentials: true whatever the Origin; a rate-limit
\* rejection, produced before the CORS stage, carries neither header.
C10_CorsHeaders ==
    (Responded /\ req.origin # "none") =>
        IF res.by = "limiter" THEN res.acao = "none" /\ ~res.acac
        ELSE /\ res.acac
             /\ res.acao = IF req.origin \in AllowList THEN req.origin ELSE "none"

\* a 404 for a request of an allowed origin reflects that origin
C10_Witness ==
    /\ Responded /\ res.status = 404
    /\ req.origin = "http://127.0.0.1:8000"
    /\ res.acao = "http://127.0.0.1:8000" /\ res.acac

\* a body over the 10 MB ceiling; the layers that handle a request once the
\* five stages have passed it on
Oversized(r) == r.body.length > 10 * 1024 * 1024
Decoded(r) == r.body.type \in {"json", "urlencoded"}
HandlerNames == {"api", "page", "start", "health", "notFound"}

\* C11 as claimed: a request whose body is over 10 MB, of whatever content
\* type and path, reaches no API router, page route, health handler or 404
\* handler.
C11_Original ==
    (layer # 0 /\ Oversized(req)) => Stack[layer].name \notin HandlerNames

\* C11 as amended: a request whose body is JSON or URL-encoded and over
\* 10 MB, once the limiter has forwarded it and unless it is a preflight,
\* is refused by the decoder of its content type with the error
\* "request entity too large" (413), which goes to the error handler and is
\* answered by it (with status 500); the static server, the API routers, the
\* page routes, the health handler and the 404 handler never run for it.
\* The decoders do not read a body of another content type: such a request
\* is refused for its size by no layer and goes on to the static server and
\* the handlers.
C11_OversizeRefused ==
    /\ (layer # 0 /\ Oversized(req) /\ Decoded(req)) =>
          /\ Stack[layer].name \in {"helmet", "limiter", "morgan", "cors", "json",
                                    "urlencoded", "error"}
          /\ Stack[layer].name = "urlencoded" => req.body.type = "urlencoded"
          /\ Stack[layer].name = "error" =>
                err = [status |-> 413, message |-> "request entity too large"]
          /\ Responded =>
                \/ res.by = "limiter" /\ res.status = 429
                \/ res.by = "cors" /\ res.status = 204 /\ req.method = "OPTIONS"
                \/ res.by = "error" /\ res.status = 500
    /\ (layer # 0 /\ Oversized(req) /\ ~Decoded(req)) => err.status # 413
    /\ (Responded /\ Oversized(req) /\ ~Decoded(req)) =>
          res.by \in {"limiter", "cors", "static", "error"} \cup HandlerNames

\* a health check with a URL-encoded body of 10 MB + 1 byte has been refused
\* and answered by the error handler
C11_Witness ==
    /\ Responded /\ res.by = "error" /\ err.status = 413
    /\ req.path = <<"api", "health">> /\ req.method = "GET"
    /\ req.body = [type |-> "urlencoded", length |-> 10 * 1024 * 1024 + 1, ok |-> TRUE]

\* a 500 of the error handler that carries a body (a HEAD request gets none)
Answered500 == Responded /\ res.by = "error" /\ res.status = 500 /\ req.method # "HEAD"
RawMessages == {"request entity too large", "Unexpected token in JSON",
                "EIO: i/o error, read", "ENOENT: no such file or directory",
                "route failure"}

\* C12 as claimed: the message of the 500 response is "Internal server
\* error" when NODE_ENV is production and the raw message of the error for
\* every other configuration (unset, test, development).
C12_Original ==
    Answered500 =>
        res.body.message = IF nodeEnv = "production" THEN "Internal server error"
                           ELSE err.message

\* C12 as amended: the message of the 500 response is the raw message of
\* the caught error when NODE_ENV is exactly development, and the generic
\* text "Internal server error", never the raw message, for every other
\* configuration: production, test, and NODE_ENV unset.
C12_MessageByEnv ==
    Answered500 =>
        /\ res.body.kind = "json"
        /\ res.body.error = "Something went wrong!"
        /\ err.message \in RawMessages
        /\ IF nodeEnv = "development" THEN res.body.message = err.message
           ELSE res.body.message = "Internal server error"

\* with NODE_ENV=test, a malformed JSON body is answered with the generic
\* message
C12_Witness ==
    /\ Answered500 /\ nodeEnv = "test"
    /\ err.message = "Unexpected token in JSON"
    /\ res.body.message = "Internal server error"

\* the start of the window the store holds for client c; the step of the
\* limiter on the request in flight
WindowStart(c) == resetTime[c] - 15 * 60 * 1000
LimiterStep == /\ layer = LayerOf("limiter") /\ ~Responded
               /\ Responded' \/ layer' # layer
\* client c has been refused in the window the store holds for it
RefusedInWindow(c) == resetTime[c] # -1 /\ refusedIn[c] = WindowStart(c)

C13_State ==
    /\ \A c \in Clients : passed[c] <= 100
    /\ (layer # 0 /\ PastLimiter) => hits[req.client] = passed[req.client]
    /\ (Responded /\ res.by = "limiter") =>
          /\ res.status = 429
          /\ RefusedInWindow(req.client)
          /\ now - WindowStart(req.client) < 15 * 60 * 1000
          /\ passed[req.client] = 100
    /\ (layer # 0 /\ PastLimiter /\ refusedIn[req.client] # -1) =>
          now - refusedIn[req.client] >= 15 * 60 * 1000

\* C13: a client that the limiter has refused in its window is refused on
\* every request while less than windowMs has elapsed since the start of
\* that window; its first request once windowMs has elapsed resets the
\* counter, starts a new window at the time of the request and is
\* forwarded; in a new window the client has up to max requests forwarded
\* again, the counter of the store being the number of them.
C13_WindowReset ==
    /\ [](C13_State)
    /\ [][ (LimiterStep /\ RefusedInWindow(req.client)) =>
              IF now - WindowStart(req.client) < 15 * 60 * 1000
              THEN /\ Responded' /\ res'.status = 429 /\ res'.by = "limiter"
                   /\ resetTime' = resetTime
                   /\ passed' = passed
              ELSE /\ ~Responded' /\ layer' > layer
                   /\ hits'[req.client] = 1
                   /\ passed'[req.client] = 1
                   /\ WindowStart(req.client)' = now ]_vars

\* a client refused in its first window has its 100th request of a later
\* window, begun exactly windowMs after the first, forwarded
C13_Witness ==
    /\ layer # 0 /\ PastLimiter /\ req.client = "A"
    /\ refusedIn["A"] = 0
    /\ WindowStart("A") = 15 * 60 * 1000
    /\ passed["A"] = 100

DashboardGet == /\ Responded /\ req.method = "GET"
                /\ req.path = <<"admin", "dashboard">>
Dashboard == [kind |-> "file", file |-> <<"admin", "index.html">>]

\* C14 as claimed: GET /admin/dashboard without a credential, forwarded by
\* the limiter, with admin/index.html in place, is answered 200 with the
\* dashboard document (a failed read of the document apart).
C14_Original ==
    (/\ DashboardGet /\ req.credential = "none" /\ res.by # "limiter"
     /\ <<"admin", "index.html">> \in files
     /\ err.message # "EIO: i/o error, read") =>
        res.status = 200 /\ res.body = Dashboard

\* C14 as amended: GET /admin/dashboard, forwarded by the limiter and with
\* a body the decoders accept (none, as a rule), is answered by its page
\* route with 200 and the dashboard document when admin/index.html exists
\* and can be read, whatever credential the request carries or lacks; no
\* layer answers it 401 or 403.  A request whose body the decoders refuse,
\* and a failed read of the document, are answered 500 by the error handler.
C14_DashboardOpen ==
    DashboardGet =>
        /\ res.status \notin {401, 403}
        /\ IF received[req.client] > 100 THEN res.by = "limiter" /\ res.status = 429
           ELSE IF BodyRefused(req) THEN res.by = "error" /\ res.status = 500
           ELSE IF <<"admin", "index.html">> \in files
           THEN \/ res.by = "page" /\ res.status = 200 /\ res.body = Dashboard
                \/ /\ res.by = "error" /\ res.status = 500
                   /\ err.message = "EIO: i/o error, read"
           ELSE /\ res.by = "error" /\ res.status = 500
                /\ err.message = "ENOENT: no such file or directory"

\* the dashboard has been served to a request without a credential
C14_Witness ==
    /\ DashboardGet /\ req.credential = "none" /\ req.body.length = 0
    /\ res.by = "page" /\ res.status = 200 /\ res.body = Dashboard

\* C15 as claimed: every response carries the protective headers of the
\* security stage, and no response carries a Content-Security-Policy
\* header (stated here for the paths outside /admin).
C15_Original ==
    (Responded /\ req.path[1] # "admin") => res.helmet /\ ~res.csp

\* C15 as amended: the security stage runs for every request before any
\* other stage and answers none, so every response (rate-limit rejection,
\* preflight answer, static file or redirect, page, redirect, health JSON,
\* API response, 500, 404) carries its protective headers; the security
\* stage sets no Content-Security-Policy header, and the one response that
\* carries such a header is the 301 by which the static server redirects to
\* a directory, which sets "default-src 'none'" itself.
C15_SecurityHeaders ==
    /\ (layer # 0 /\ Stack[layer].name # "helmet") => res.helmet
    /\ (layer # 0 /\ Stack[layer].name = "helmet") => ~Responded /\ ~res.helmet
    /\ Responded =>
          /\ res.helmet
          /\ res.csp <=> (res.by = "static" /\ res.status = 301)

\* a rate-limit rejection carries the protective headers and no
\* Content-Security-Policy
C15_Witness ==
    /\ Responded /\ res.by = "limiter" /\ res.status = 429
    /\ res.helmet /\ ~res.csp

\* the five stages (the body decoder is two layers) and what follows them
StageNames == {"helmet", "limiter", "morgan", "cors", "json", "urlencoded"}
AfterStages == {"static", "api", "page", "start", "health", "error", "notFound"}

\* C16 as claimed: no request is answered by one of the five stages, a
\* rate-limited request and a preflight included; every request is answered
\* by the static server, a route or a fallback handler after all five
\* stages have run.
C16_Original ==
    Responded =>
        /\ res.by \in AfterStages
        /\ res.helmet /\ res.logged /\ res.acac

C16_State ==
    /\ [i \in 1..7 |-> Stack[i].name] =
          <<"helmet", "limiter", "morgan", "cors", "json", "urlencoded", "static">>
    /\ layer \in 0..Len(Stack)
    /\ layer > 1 => res.helmet
    /\ layer > 3 => res.logged
    /\ layer > 4 => res.acac
    /\ Responded =>
          \/ res.by = "limiter" /\ res.status = 429 /\ layer = 2
          \/ res.by = "cors" /\ res.status = 204 /\ layer = 4 /\ req.method = "OPTIONS"
          \/ res.by \in AfterStages /\ layer > 6 /\ Stack[layer].name = res.by

\* C16 as amended: every request enters the stages security, rate limiter,
\* access logger, CORS policy, body decoder in this order, each stage only
\* after the one before it has passed the request on, and static and route
\* matching only after all five.  A stage may end the request: the limiter
\* answers a request beyond the limit 429 (before the logger, CORS and the
\* decoder run), CORS answers an OPTIONS request 204 (before the decoder
\* runs), a decoder that refuses the body hands the request to the error
\* handler.  A request that has passed the five stages ends in the static
\* server, a route or a fallback handler.
C16_StagesInOrder ==
    /\ [](C16_State)
    /\ [][ /\ (layer = 0 /\ layer' # 0) => layer' = 1
           /\ (layer # 0 /\ layer' # 0 /\ layer' # layer) =>
                /\ ~Responded
                /\ layer' > layer
                /\ layer < 7 =>
                      \/ layer' = layer + 1
                      \/ /\ Stack[layer].name \in {"json", "urlencoded"}
                         /\ Stack[layer'].name = "error" ]_vars

\* a static file has been served to a request with a JSON body, after the
\* five stages
C16_Witness ==
    /\ Responded /\ res.by = "static" /\ res.status = 200
    /\ res.helmet /\ res.logged /\ res.acac
    /\ req.body.type = "json" /\ req.origin = "http://localhost:3000"

\* C17 as claimed: for every request the server receives, a request refused
\* by the limiter with 429 included, an access-log record is written when
\* its response ends.
C17_Original ==
    Responded => res.logged

\* the limiter has decided on the request in flight
Decided == layer # 0 /\ (layer > LayerOf("limiter") \/ Responded)

\* The run in which client c is alone is kept beside the run with all the
\* clients: solo[c] is the store entry c has there, after the same requests
\* of c at the same times.
C18_State ==
    /\ \A c \in Clients : hits[c] = solo[c].count /\ resetTime[c] = solo[c].until
    /\ Decided => ((res.by = "limiter") <=> (solo[req.client].count > 100))

\* C18: the decision of the limiter on a request of a client is the
\* decision it takes in the run in which that client is alone and sends the
\* same requests at the same times; a request of one client changes the
\* counter and the window of no other client.
C18_Isolation ==
    /\ [](C18_State)
    /\ [][ \A c \in Clients :
              (layer # 0 /\ req.client # c) =>
                  /\ hits'[c] = hits[c] /\ resetTime'[c] = resetTime[c]
                  /\ passed'[c] = passed[c] ]_vars

\* the 100th request of a client is answered by its handler while the other
\* client, at the same time, is beyond the limit
C18_Witness ==
    /\ Responded /\ req.client = "A" /\ res.by = "health" /\ res.status = 200
    /\ hits["A"] = 100
    /\ hits["B"] > 100 /\ resetTime["B"] = resetTime["A"]

\* the terminal responses, by kind
Terminal ==
    \/ res.by = "limiter" /\ res.status = 429
    \/ res.by = "cors" /\ res.status = 204 /\ req.method = "OPTIONS"
    \/ res.by = "static" /\ res.status = 200 /\ res.body \in {EmptyBody} \cup
                                                   { [kind |-> "file", file |-> f] : f \in files }
    \/ res.by = "static" /\ res.status = 301 /\ res.location = req.path \o <<"">>
    \/ res.by = "api" /\ res.status \in {200, 401}
    \/ res.by = "page" /\ res.status = 200
    \/ res.by = "start" /\ res.status = 302 /\ res.location = <<"launcher">>
    \/ res.by = "health" /\ res.status = 200
    \/ res.by = "error" /\ res.status = 500
    \/ res.by = "notFound" /\ res.status = 404

C19_State ==
    /\ layer \in 0..Len(Stack)
    /\ layer = 0 => req = NoReq /\ res = NoRes
    /\ Responded => Terminal /\ Stack[layer].name = res.by

\* C19: every request receives exactly one terminal response from exactly
\* one stage: it is handed from layer to layer and never past the end of
\* the stack; the layer in charge writes the response (a rate-limit
\* rejection, a preflight answer, a static file, a redirect, an API
\* response, a page, the health JSON, a 500 or a 404); the response once
\* written is not changed and no other layer runs for the request; and
\* every request received is answered.  An API router answers, passes the
\* request on or fails.
C19_OneResponse ==
    /\ [](C19_State)
    /\ [][ /\ (~Responded /\ Responded') => layer # 0 /\ layer' = layer /\ req' = req
           /\ Responded => \/ layer' = layer /\ req' = req /\ res' = res
                           \/ layer' = 0 /\ res' = NoRes ]_vars
    /\ (layer # 0) ~> Responded
    /\ Responded ~> (layer = 0)

\* a POST under an API prefix that its router passes on has been answered,
\* once, by the 404 handler
C19_Witness ==
    /\ Responded /\ req.method = "POST" /\ req.path = <<"api", "sync">>
    /\ res.by = "notFound" /\ res.status = 404
    /\ res.logged /\ res.acac /\ res.helmet

====
